---- MODULE Spec2Model ----
(***************************************************************************)
(* A model of cytoself's BaseTrainer (src/cytoself/trainer/basetrainer.py):*)
(* the metrics ledger, the plateau / early-stop controller, the best-model *)
(* tracking and the end-of-run save of fit.                                *)
(*                                                                         *)
(* Floats are IEEE 754 doubles, every operation rounded to 53 bits; 2^1024 *)
(* is torch.inf.  Paths are sequences of components, os.path.join appends. *)
(***************************************************************************)
EXTENDS Integers, Sequences, FiniteSets, TLC

(* ------------------------------ bounds --------------------------------- *)
\* largest max_epochs a caller configures, and the ledger budget of a run
MaxEpochs == 3
\* largest reducelr_patience / earlystop_patience a caller configures
MaxPatience == 2
\* largest initial_epoch a caller passes to fit
MaxInitialEpoch == 1
\* largest number of batches a loader yields
MaxBatches == 2
\* number of fit calls on one trainer
MaxFits == 2
\* calls other than fit on a model made on one trainer
MaxCalls == 2

(* ------------------------------ floats --------------------------------- *)
\* A Python float is an IEEE 754 double. A value x >= 0 is the pair <<m, e>>
\* with x = m * 2^e, where m is odd and written in limbs of 14 bits, lowest
\* first; 0.0 is <<<<>>, 0>>. Every operation computes the exact result and
\* rounds it to 53 significant bits, ties to even, as the hardware does.
Base == 2 ^ 14
Precision == 53
\* the lowest bit of a subnormal double is 2^-1074; 2^1024 stands for +inf
MinExponent == 0 - 1074
Inf == <<<<1>>, 1024>>
Zero == <<<<>>, 0>>
\* nan, the result of inf * 0.0 (kept apart from every number by its exponent)
NaN == <<<<1>>, 1025>>

Max(a, b) == IF a >= b THEN a ELSE b
Min(a, b) == IF a <= b THEN a ELSE b
Zeros(n) == [j \in 1 .. n |-> 0]

RECURSIVE StripHigh(_)
StripHigh(a) ==
    IF a = <<>> \/ a[Len(a)] # 0 THEN a ELSE StripHigh(SubSeq(a, 1, Len(a) - 1))

RECURSIVE AddFrom(_, _, _, _, _)
AddFrom(a, b, i, carry, acc) ==
    IF i > Len(a) /\ i > Len(b)
    THEN IF carry = 0 THEN acc ELSE Append(acc, carry)
    ELSE LET s == (IF i <= Len(a) THEN a[i] ELSE 0) + (IF i <= Len(b) THEN b[i] ELSE 0) + carry
         IN AddFrom(a, b, i + 1, s \div Base, Append(acc, s % Base))
BigAdd(a, b) == AddFrom(a, b, 1, 0, <<>>)

\* a * x for 0 <= x < 2^16
RECURSIVE MulSmallFrom(_, _, _, _, _)
MulSmallFrom(a, x, i, carry, acc) ==
    IF i > Len(a)
    THEN IF carry = 0 THEN acc ELSE Append(acc, carry)
    ELSE LET s == a[i] * x + carry
         IN MulSmallFrom(a, x, i + 1, s \div Base, Append(acc, s % Base))
MulSmall(a, x) == IF x = 1 THEN a ELSE StripHigh(MulSmallFrom(a, x, 1, 0, <<>>))

RECURSIVE MulFrom(_, _, _, _)
MulFrom(a, b, i, acc) ==
    IF i > Len(a) THEN acc
    ELSE MulFrom(a, b, i + 1, BigAdd(acc, Zeros(i - 1) \o MulSmall(b, a[i])))
BigMul(a, b) == StripHigh(MulFrom(a, b, 1, <<>>))

\* quotient and remainder of a by d, for 0 < d < 2^17
RECURSIVE DivFrom(_, _, _, _, _)
DivFrom(a, d, i, r, acc) ==
    IF i = 0 THEN [q |-> StripHigh(acc), r |-> r]
    ELSE LET cur == r * Base + a[i]
         IN DivFrom(a, d, i - 1, cur % d, <<cur \div d>> \o acc)
DivSmall(a, d) == IF d = 1 THEN [q |-> a, r |-> 0] ELSE DivFrom(a, d, Len(a), 0, <<>>)

\* a * 2^k and floor(a / 2^k)
ShlBits(a, k) ==
    IF a = <<>> \/ k = 0 THEN a ELSE Zeros(k \div 14) \o MulSmall(a, 2 ^ (k % 14))
ShrBits(a, k) ==
    IF k \div 14 >= Len(a) THEN <<>>
    ELSE DivSmall(SubSeq(a, (k \div 14) + 1, Len(a)), 2 ^ (k % 14)).q

RECURSIVE BitLenLimb(_)
BitLenLimb(x) == IF x = 0 THEN 0 ELSE 1 + BitLenLimb(x \div 2)
BitLen(a) == IF a = <<>> THEN 0 ELSE 14 * (Len(a) - 1) + BitLenLimb(a[Len(a)])

RECURSIVE TrailingZerosLimb(_)
TrailingZerosLimb(x) == IF x % 2 = 1 THEN 0 ELSE 1 + TrailingZerosLimb(x \div 2)
RECURSIVE TrailingZeros(_)
TrailingZeros(a) ==
    IF a[1] = 0 THEN 14 + TrailingZeros(Tail(a)) ELSE TrailingZerosLimb(a[1])

IsOdd(a) == a # <<>> /\ a[1] % 2 = 1

RECURSIVE BigLtFrom(_, _, _)
BigLtFrom(a, b, i) ==
    IF i = 0 THEN FALSE
    ELSE IF a[i] # b[i] THEN a[i] < b[i]
    ELSE BigLtFrom(a, b, i - 1)
BigLt(a, b) == IF Len(a) # Len(b) THEN Len(a) < Len(b) ELSE BigLtFrom(a, b, Len(a))

\* the one way to write m * 2^e
Canon(a, e) ==
    LET s == StripHigh(a) IN
    IF s = <<>> THEN Zero
    ELSE LET t == TrailingZeros(s) IN <<ShrBits(s, t), e + t>>

\* the double nearest to a * 2^e (plus less than one unit of a when sticky)
Round(a, e, sticky) ==
    LET k == Max(BitLen(a) - Precision, MinExponent - e) IN
    IF k <= 0 THEN (IF BitLen(a) + e > 1024 THEN Inf ELSE Canon(a, e))
    ELSE LET q == ShrBits(a, k)
             h == ShrBits(a, k - 1)
             rest == sticky \/ ShlBits(h, k - 1) # a
             up == IsOdd(h) /\ (rest \/ IsOdd(q))
             r == IF up THEN BigAdd(q, <<1>>) ELSE q
         IN IF BitLen(r) + e + k > 1024 THEN Inf ELSE Canon(r, e + k)

\* a < b
FLt(a, b) ==
    IF a = NaN \/ b = NaN THEN FALSE
    ELSE IF a[1] = <<>> THEN b[1] # <<>>
    ELSE IF b[1] = <<>> THEN FALSE
    ELSE IF BitLen(a[1]) + a[2] # BitLen(b[1]) + b[2]
         THEN BitLen(a[1]) + a[2] < BitLen(b[1]) + b[2]
    ELSE LET e == Min(a[2], b[2])
         IN BigLt(ShlBits(a[1], a[2] - e), ShlBits(b[1], b[2] - e))

\* a * b
FMul(a, b) ==
    IF a = NaN \/ b = NaN THEN NaN
    ELSE IF a = Inf \/ b = Inf THEN (IF a = Zero \/ b = Zero THEN NaN ELSE Inf)
    ELSE IF a[1] = <<>> \/ b[1] = <<>> THEN Zero
    ELSE Round(BigMul(a[1], b[1]), a[2] + b[2], FALSE)

\* a + b
FAdd(a, b) ==
    IF a = NaN \/ b = NaN THEN NaN
    ELSE IF a = Inf \/ b = Inf THEN Inf
    ELSE IF a[1] = <<>> THEN b
    ELSE IF b[1] = <<>> THEN a
    ELSE LET e == Min(a[2], b[2])
         IN Round(BigAdd(ShlBits(a[1], a[2] - e), ShlBits(b[1], b[2] - e)), e, FALSE)

\* a / k for an int k: Python raises ZeroDivisionError for k = 0
FDiv(a, k) ==
    IF k = 0 THEN "ZeroDivisionError"
    ELSE IF a = NaN \/ a = Inf THEN a
    ELSE IF a[1] = <<>> THEN Zero
    ELSE LET d == DivSmall(ShlBits(a[1], 70), k)
         IN Round(d.q, a[2] - 70, d.r # 0)

\* the float of an int n >= 0, and the float n / d of two ints
FromInt(n) == Canon(<<n % Base, (n \div Base) % Base, n \div (Base * Base)>>, 0)
Float(n, d) == IF d = 1 THEN FromInt(n) ELSE FDiv(FromInt(n), d)

\* the literal 1e-8
TenToMinus8 == <<<<1565, 1121, 3191, 687>>, 0 - 78>>

RECURSIVE FSum(_)
FSum(s) == IF s = <<>> THEN Zero ELSE FAdd(FSum(SubSeq(s, 1, Len(s) - 1)), s[Len(s)])

\* python's min() over a non-empty list of floats
RECURSIVE FMin(_)
FMin(s) ==
    IF Len(s) = 1 THEN s[1]
    ELSE LET m == FMin(SubSeq(s, 1, Len(s) - 1)) IN
         IF FLt(s[Len(s)], m) THEN s[Len(s)] ELSE m

(* ------------------------------ inputs --------------------------------- *)
\* the caller's train_args (every key given)
Increments == {Float(1, 2), Float(3, 2)}
MinLrs == {Float(1, 4), Float(3, 4)}
Lrs == {Float(1, 1)}

\* every early-stop configuration with one learning-rate configuration, and
\* every learning-rate configuration with the longest early-stop configuration
TrainArgs ==
    [reducelr_patience : {1},
     reducelr_increment : {Float(1, 2)},
     earlystop_patience : 0 .. MaxPatience,
     min_lr : {Float(1, 4)},
     max_epochs : 0 .. MaxEpochs,
     lr : Lrs]
    \cup
    [reducelr_patience : 0 .. MaxPatience,
     reducelr_increment : Increments,
     earlystop_patience : {MaxPatience},
     min_lr : MinLrs,
     max_epochs : {MaxEpochs},
     lr : Lrs]

\* the per-batch losses of one pass over the validation loader
ValBatchLosses == UNION {[1 .. k -> {Float(0, 1), Float(1, 1)}] : k \in 0 .. MaxBatches}
\* the per-batch losses of the passes over datamanager.val_loader in fit: a
\* loader of one batch of loss 0, of loss 1, or of a loss that overflowed to
\* inf, and a loader of two batches of loss 1
EpochValBatchLosses ==
    {<<Float(0, 1)>>, <<Float(1, 1)>>, <<Float(1, 1), Float(1, 1)>>, <<Inf>>}
\* the per-batch losses of a pass the caller asks for: any number of batches, each of loss 1
CallBatchLosses == {bl \in ValBatchLosses : \A i \in DOMAIN bl : bl[i] = Float(1, 1)}
\* the per-batch losses of one pass over the training loader
TrainBatchLosses == [1 .. MaxBatches -> {Float(1, 1)}]

\* a metrics value is a float or a list of floats
Scalar(x) == [is_list |-> FALSE, val |-> x]
List(xs) == [is_list |-> TRUE, val |-> xs]

\* the train_args a caller hands to the constructor: lr with none, one or all of
\* the other keys of one dictionary
FullArgs ==
    [reducelr_patience |-> 1, reducelr_increment |-> Float(1, 2), earlystop_patience |-> 1,
     min_lr |-> Float(1, 4), max_epochs |-> 2, lr |-> Float(1, 1)]
Restrict(f, S) == [k \in S |-> f[k]]
CallerArgs ==
    {Restrict(FullArgs, S \cup {"lr"}) :
        S \in {T \in SUBSET (DOMAIN FullArgs) : Cardinality(T) <= 1 \/ T = DOMAIN FullArgs}}

\* the metrics a caller hands to record_metrics: a float, a list of two floats
\* for the one metric name, a list holding a list-valued loss
RecordInputs ==
    {Scalar(Float(1, 1)),
     List(<<Scalar(Float(0, 1)), Scalar(Float(1, 1))>>),
     List(<<List(<<Float(0, 1), Float(1, 1)>>)>>)}
Phases == {"train", "test"}

\* what a caller hands to infer_embeddings and infer_reconstruction
InferInputs == {"None", "array", "DataLoader"}

\* a path is the sequence of its components; os.path.join of relative paths
HomePath == <<"home">>
join(p, q) == p \o q

\* tensorboard_path None, and the paths a caller gives for the TensorBoard log
NoPath == <<>>
TensorboardPaths == {NoPath, <<"tb_logs">>}

\* what a caller hands to _init_model: a new model that is true in a
\* condition, a new one that is false in one, or the object self.model
\* already is; and the test of `if self.model:`
Models == {"bound", "falsy", "same"}
Truthy(m) == m = "bound"

\* python's `sub in s` on strings
Contains(sub, s) ==
    \E i \in 1 .. (Len(s) - Len(sub) + 1) : SubSeq(s, i, i + Len(sub) - 1) = sub

VARIABLES
    cls,                 \* the trainer class: "BaseTrainer" or a subclass overriding train_one_epoch
    train_args,          \* self.train_args
    model,               \* self.model: "None", "bound" (a model that is true in a condition)
                         \* or "falsy" (a model that is false in one, as a container of length 0)
    model_id,            \* which model object self.model is: the n-th one bound, 0 for None
    params,              \* the live model's parameters: the number of optimizer steps applied
    lr,                  \* self.optimizer.param_groups[0]['lr'] (0.0 while optimizer is None)
    optimizer,           \* self.optimizer: "None" or "bound"
    optimizer_id,        \* the model object whose parameters self.optimizer holds, 0 for None
    best_model,          \* self.best_model: 0 is [], n > 0 the state_dict() taken in the n-th validated epoch
    detached,            \* the parameters held by the tensors of best_model once the model they
                         \* belong to is no longer self.model; -1 while it is (or best_model is [])
    best_model_id,       \* the model object whose tensors the state_dict in best_model holds, 0 for []
    savepath_dict,       \* self.savepath_dict
    tb_writer,           \* self.tb_writer: the log directory of the SummaryWriter, NoPath while it is None
    tb_scalars,          \* what add_scalars has written, in order
    current_epoch,       \* self.current_epoch
    losses,              \* self.losses: the metrics ledger
    files,               \* the writes torch.save made, in order
    pc,                  \* the position inside fit ("idle" outside)
    initial_epoch,       \* fit's argument
    tensorboard_path,    \* fit's argument and local, NoPath for None
    loop_i,              \* the next value of range(self.current_epoch, max_epochs)
    best_vloss,          \* fit's local best_vloss
    vloss,               \* fit's local _vloss
    count_lr_no_improve, \* fit's local
    count_early_stop,    \* fit's local
    raised,              \* the exception the last call ended with, "none" otherwise
    n_fit,               \* number of fit calls made
    completed,           \* history: epochs the current fit has completed
    hist,                \* history: per validated epoch of the current fit, its loss, the params and whether it improved
    fresh,               \* history: the ledger was empty when the current fit started
    before,              \* history: self.best_model and what it held when the current fit started
    n_calls,             \* number of calls made on the trainer other than fit on a model
    last_call            \* history: the last of them since fit last began, its arguments
                         \* and whether it ran the model

vars == <<cls, train_args, model, model_id, params, lr, optimizer, optimizer_id, best_model, best_model_id, detached, savepath_dict,
          tb_writer, tb_scalars, current_epoch, losses, files, pc, initial_epoch,
          tensorboard_path, loop_i, best_vloss, vloss,
          count_lr_no_improve, count_early_stop, raised, n_fit, completed, hist, fresh, before,
          n_calls, last_call>>

trainer == <<cls, train_args, model, model_id, params, lr, optimizer, optimizer_id, best_model, best_model_id, detached, savepath_dict,
             tb_writer, tb_scalars, current_epoch, losses, files>>
locals == <<initial_epoch, tensorboard_path, loop_i, best_vloss, vloss, count_lr_no_improve,
            count_early_stop>>
calls == <<n_calls, last_call>>

(* --------------------------- metrics ledger ---------------------------- *)
metrics_names == <<"loss">>

\* a slip: the key's list started afresh on every record
adaptive_record_overwriting(L, key, metrics) ==
    [k \in DOMAIN L \cup {key} |-> IF k = key THEN <<metrics>> ELSE L[k]]

adaptive_record_metrics(L, key, metrics) ==
    IF key \in DOMAIN L
    THEN [L EXCEPT ![key] = Append(@, metrics)]
    ELSE [k \in DOMAIN L \cup {key} |-> IF k = key THEN <<metrics>> ELSE L[k]]

\* a slip: the suffix counted from 0
RECURSIVE record_list_from_zero(_, _, _, _, _)
record_list_from_zero(L, phase, n, l, i) ==
    IF i >= Len(l) THEN L
    ELSE record_list_from_zero(adaptive_record_metrics(L, phase \o "_" \o n \o ToString(i), l[i + 1]),
                               phase, n, l, i + 1)

\* for i, _l in enumerate(l): record under f'{phase}_{n}{i + 1}'
RECURSIVE record_list(_, _, _, _, _)
record_list(L, phase, n, l, i) ==
    IF i >= Len(l) THEN L
    ELSE record_list(adaptive_record_metrics(L, phase \o "_" \o n \o ToString(i + 1), l[i + 1]),
                     phase, n, l, i + 1)

\* for n, l in zip(names, metrics) from position j on
RECURSIVE record_zip(_, _, _, _, _)
record_zip(L, names, metrics, phase, j) ==
    IF j > Len(names) \/ j > Len(metrics) THEN L
    ELSE LET l == metrics[j]
             L1 == IF l.is_list
                   THEN record_list(L, phase, names[j], l.val, 0)
                   ELSE adaptive_record_metrics(L, phase \o "_" \o names[j], l.val)
         IN record_zip(L1, names, metrics, phase, j + 1)

\* a slip: the ledger rebuilt from the metrics of this call alone
record_metrics_afresh(L, metrics, phase) ==
    LET ms == IF metrics.is_list THEN metrics.val ELSE <<metrics>>
    IN record_zip(<<>>, metrics_names, ms, phase, 1)

\* metrics: List of metrics values, or one Scalar
record_metrics(L, metrics, phase) ==
    LET ms == IF metrics.is_list THEN metrics.val ELSE <<metrics>>
    IN record_zip(L, metrics_names, ms, phase, 1)

\* what torch.save serializes for self.best_model: the list [] or the
\* state_dict, whose tensors are the live model's parameters
best_model_content(bm, live) ==
    IF bm = 0 THEN [kind |-> "list", params |-> 0]
    ELSE [kind |-> "state_dict", params |-> live]

\* the parameters the tensors of a state_dict in best_model hold now
held == IF detached < 0 THEN params ELSE detached

(* ---------------------------- construction ----------------------------- *)
Init ==
    /\ cls \in {"BaseTrainer", "Subclass"}
    /\ train_args \in TrainArgs
    /\ model = "None"
    /\ model_id = 0
    /\ params = 0
    /\ lr = Float(0, 1)
    /\ optimizer = "None"
    /\ optimizer_id = 0
    /\ best_model = 0
    /\ best_model_id = 0
    /\ detached = -1
    /\ savepath_dict = [k \in {"homepath"} |-> HomePath]
    /\ tb_writer = NoPath
    /\ tb_scalars = <<>>
    /\ current_epoch = 0
    /\ losses = <<>>
    /\ files = <<>>
    /\ pc = "idle"
    /\ initial_epoch = 0
    /\ tensorboard_path = NoPath
    /\ loop_i = 0
    /\ best_vloss = Inf
    /\ vloss = Inf
    /\ count_lr_no_improve = 0
    /\ count_early_stop = 0
    /\ raised = "none"
    /\ n_fit = 0
    /\ completed = 0
    /\ hist = <<>>
    /\ fresh = TRUE
    /\ before = [best_model |-> 0, content |-> best_model_content(0, 0), resumed |-> FALSE]
    /\ n_calls = 0
    /\ last_call = [op |-> "none", arg |-> <<>>, invoked |-> FALSE]

\* _default_train_args, lines 72-78: the defaults
default_args ==
    [reducelr_patience |-> 4,
     reducelr_increment |-> Float(1, 10),
     earlystop_patience |-> 12,
     min_lr |-> TenToMinus8,
     max_epochs |-> 100]

\* a slip: the defaults written over what the caller gave
default_train_args_overriding(args) ==
    [k \in DOMAIN args \cup DOMAIN default_args |->
        IF k \in DOMAIN default_args THEN default_args[k] ELSE args[k]]

\* _default_train_args, lines 79-81: a key is filled in only when it is missing
default_train_args(args) ==
    [k \in DOMAIN args \cup DOMAIN default_args |->
        IF k \notin DOMAIN args THEN default_args[k] ELSE args[k]]

\* set_optimizer, lines 134-136: Adam over the model's parameters with the
\* keyword arguments Adam accepts; its own default lr is 1e-3
optimizer_lr(kwargs) == IF "lr" \in DOMAIN kwargs THEN kwargs["lr"] ELSE Float(1, 1000)

directories == {"checkpoints", "embeddings", "ft_analysis", "umaps", "visualization"}

init_savepath(sp) ==
    [k \in DOMAIN sp \cup directories |->
        IF k \in directories THEN join(sp["homepath"], <<k>>) ELSE sp[k]]

\* enable_tensorboard, lines 159-162: the save path and the writer opened on it
enable_tensorboard(sp, savepath) ==
    [savepath_dict |-> [k \in DOMAIN sp \cup {"tb_logs"} |->
                           IF k = "tb_logs" THEN savepath ELSE sp[k]],
     tb_writer |-> savepath]

\* write_on_tensorboard, lines 165-173: the last value of every key of the
\* ledger that does not contain 'test', written at step current_epoch + 1,
\* through a writer opened on the path if there is none
write_on_tensorboard(sp, writer, scalars, L, epoch, path) ==
    IF path = NoPath
    THEN [savepath_dict |-> sp, tb_writer |-> writer, tb_scalars |-> scalars]
    ELSE LET e == IF writer = NoPath THEN enable_tensorboard(sp, path)
                  ELSE [savepath_dict |-> sp, tb_writer |-> writer]
         IN [savepath_dict |-> e.savepath_dict,
             tb_writer |-> e.tb_writer,
             tb_scalars |-> Append(scalars,
                                   [logdir |-> e.tb_writer, step |-> epoch + 1,
                                    values |-> [k \in {j \in DOMAIN L : ~Contains("test", j)} |->
                                                   L[k][Len(L[k])]]])]

Call(op, arg, invoked) == [op |-> op, arg |-> arg, invoked |-> invoked]

\* _init_model, lines 56-61: bind the model m, fill in train_args, build the
\* optimizer from train_args, make the save paths. None (the object bound on
\* a trainer without a model) has no .to: AttributeError at line 57.
\* set_optimizer raises on a model that is false in a condition: the
\* optimizer stays the one built on an earlier model, and init_savepath is
\* not reached. When m is a new model, a state_dict kept in best_model still
\* holds the tensors of the model it was taken from.
InitModel(m) ==
    /\ pc = "idle"
    /\ n_calls < MaxCalls
    /\ n_calls' = n_calls + 1
    /\ last_call' = Call("_init_model", m, FALSE)
    /\ LET bound == IF m = "same" THEN model ELSE m IN
       IF bound = "None"
       THEN /\ raised' = "AttributeError"
            /\ UNCHANGED <<model, model_id, params, detached, train_args, optimizer,
                           optimizer_id, lr, savepath_dict>>
       ELSE /\ model' = bound
            /\ model_id' = (IF m = "same" THEN model_id ELSE model_id + 1)
            /\ params' = (IF m = "same" THEN params ELSE 0)
            /\ detached' = (IF m # "same" /\ best_model # 0 /\ best_model_id = model_id
                            THEN params ELSE detached)
            /\ train_args' = default_train_args(train_args)
            /\ IF Truthy(bound)
               THEN /\ optimizer' = "bound"
                    /\ optimizer_id' = model_id'
                    /\ lr' = optimizer_lr(default_train_args(train_args))
                    /\ savepath_dict' = init_savepath(savepath_dict)
                    /\ raised' = "none"
               ELSE /\ raised' = "ValueError"
                    /\ UNCHANGED <<optimizer, optimizer_id, lr, savepath_dict>>
    /\ UNCHANGED <<cls, best_model, best_model_id, tb_writer, tb_scalars, current_epoch, losses,
                   files, pc, locals, n_fit, completed, hist, fresh, before>>

\* the _init_model a trainer's constructor makes
FirstInit == model = "None" /\ InitModel("bound")

(* ----------------------------- epoch runner ---------------------------- *)
\* calc_val_loss: the sum of the per-batch losses (one loss term per batch,
\* calc_loss_one_batch returns a 1-tuple), recorded under phase 'val'
val_metrics(bl) ==
    IF bl = <<>>
    THEN [j \in 1 .. Len(metrics_names) |-> Scalar(Float(0, 1))]
    ELSE [j \in 1 .. (IF Len(metrics_names) < 1 THEN Len(metrics_names) ELSE 1) |->
             Scalar(FSum(bl))]

calc_val_loss(L, bl) == record_metrics(L, List(val_metrics(bl)), "val")

\* train_one_epoch as a subclass overrides it: one optimizer step per batch,
\* then the mean of the per-batch losses recorded under phase 'train'
train_metrics(bl) == <<Scalar(FDiv(FSum(bl), Len(bl)))>>

train_one_epoch(L, bl) == record_metrics(L, List(train_metrics(bl)), "train")

(* ---------------------- plateau / early-stop rules --------------------- *)
\* a slip: the counter handed back as it was after a decay
reduce_lr_keeping_count(opt, count, cur_lr, args) ==
    IF opt = "None" THEN [lr |-> cur_lr, count |-> count, raised |-> "ValueError"]
    ELSE IF count >= args.reducelr_patience
    THEN [lr |-> IF FLt(args.min_lr, cur_lr) THEN FMul(cur_lr, args.reducelr_increment) ELSE cur_lr,
          count |-> count, raised |-> "none"]
    ELSE [lr |-> cur_lr, count |-> count, raised |-> "none"]

\* a slip: reducelr_increment added to the learning rate
reduce_lr_adding(opt, count, cur_lr, args) ==
    IF opt = "None" THEN [lr |-> cur_lr, count |-> count, raised |-> "ValueError"]
    ELSE IF count >= args.reducelr_patience
    THEN IF FLt(args.min_lr, cur_lr)
         THEN [lr |-> FAdd(cur_lr, args.reducelr_increment), count |-> 0, raised |-> "none"]
         ELSE [lr |-> cur_lr, count |-> count, raised |-> "none"]
    ELSE [lr |-> cur_lr, count |-> count, raised |-> "none"]

\* _reduce_lr_on_plateau, lines 315-326: without an optimizer ValueError, else
\* the new learning rate and the returned counter
reduce_lr_on_plateau(opt, count, cur_lr, args) ==
    IF opt = "None" THEN [lr |-> cur_lr, count |-> count, raised |-> "ValueError"]
    ELSE IF count >= args.reducelr_patience
    THEN IF FLt(args.min_lr, cur_lr)
         THEN [lr |-> FMul(cur_lr, args.reducelr_increment), count |-> 0, raised |-> "none"]
         ELSE [lr |-> cur_lr, count |-> count, raised |-> "none"]
    ELSE [lr |-> cur_lr, count |-> count, raised |-> "none"]

\* a slip: the comparison of line 389 turned round
improved_reversed(v, best) == FLt(best, v)

\* fit, line 389: the epoch's validation loss beats the best so far
improved(v, best) == FLt(v, best)

\* a slip: the early-stop test of line 406 one epoch late
early_stop_late(count, args) == count > args.earlystop_patience

\* fit, line 406: the early-stop test
early_stop(count, args) == count >= args.earlystop_patience

\* fit, line 374
initial_best_vloss(L) ==
    IF "val_loss" \notin DOMAIN L THEN Inf ELSE FMin(L["val_loss"])

\* fit, line 410: the file written when the loop has ended
save_path(sp, epoch) == join(sp["homepath"], <<"model_" \o ToString(epoch + 1) \o ".pt">>)

ValLen == IF "val_loss" \in DOMAIN losses THEN Len(losses["val_loss"]) ELSE 0

(* --------------------------------- fit --------------------------------- *)
\* fit, lines 370-376 (self.model is not None): the locals of a run
FitStart(ie, tb) ==
    /\ pc = "idle"
    /\ model # "None"
    /\ n_fit < MaxFits
    /\ ValLen + (IF train_args.max_epochs > ie THEN train_args.max_epochs - ie ELSE 0) <= MaxEpochs
    /\ current_epoch' = ie
    /\ initial_epoch' = ie
    /\ tensorboard_path' = tb
    /\ best_vloss' = initial_best_vloss(losses)
    /\ count_lr_no_improve' = 0
    /\ count_early_stop' = 0
    /\ loop_i' = ie
    /\ pc' = "train"
    /\ raised' = "none"
    /\ n_fit' = n_fit + 1
    /\ completed' = 0
    /\ hist' = <<>>
    /\ fresh' = (losses = <<>>)
    /\ before' = [best_model |-> best_model, content |-> best_model_content(best_model, held),
                  resumed |-> "val_loss" \in DOMAIN losses]
    /\ last_call' = [op |-> "none", arg |-> <<>>, invoked |-> FALSE]
    /\ UNCHANGED <<cls, train_args, model, model_id, params, lr, optimizer, optimizer_id, best_model, best_model_id, detached,
                   savepath_dict, tb_writer, tb_scalars, losses, files, vloss, n_calls>>

\* line 377: range(...) is exhausted
LoopExit ==
    /\ pc = "train"
    /\ loop_i >= train_args.max_epochs
    /\ pc' = "save"
    /\ UNCHANGED <<trainer, locals, raised, n_fit, completed, hist, fresh, before, calls>>

\* lines 380-382 with BaseTrainer.train_one_epoch: line 213 calls
\* enumerate(data_loader, desc='Train'), a TypeError that escapes from fit
TrainOneEpochBase ==
    /\ pc = "train"
    /\ loop_i < train_args.max_epochs
    /\ cls = "BaseTrainer"
    /\ raised' = "TypeError"
    /\ pc' = "idle"
    /\ UNCHANGED <<trainer, locals, n_fit, completed, hist, fresh, before, calls>>

\* lines 380-382 with an overriding train_one_epoch and no optimizer (the
\* model is false in a condition): self.optimizer.zero_grad() on None raises
\* AttributeError on the first batch, and it escapes from fit
TrainOneEpochNoOptimizer ==
    /\ pc = "train"
    /\ loop_i < train_args.max_epochs
    /\ cls = "Subclass"
    /\ optimizer = "None"
    /\ raised' = "AttributeError"
    /\ pc' = "idle"
    /\ UNCHANGED <<trainer, locals, n_fit, completed, hist, fresh, before, calls>>

\* an optimizer step changes the parameters of the model the optimizer was
\* built for: the live model's, or those of an earlier model, which a
\* state_dict in best_model taken from that model still holds
step_params(n) == IF optimizer_id = model_id THEN params + n ELSE params
step_detached(n) ==
    IF optimizer_id # model_id /\ best_model # 0 /\ best_model_id = optimizer_id
    THEN detached + n ELSE detached

\* lines 380-382 with an overriding train_one_epoch: every batch is a step of
\* the optimizer
TrainOneEpochOverride ==
    /\ pc = "train"
    /\ loop_i < train_args.max_epochs
    /\ cls = "Subclass"
    /\ optimizer = "bound"
    /\ \E bl \in TrainBatchLosses :
        /\ params' = step_params(Len(bl))
        /\ detached' = step_detached(Len(bl))
        /\ losses' = train_one_epoch(losses, bl)
    /\ pc' = "val"
    /\ UNCHANGED <<cls, train_args, model, model_id, lr, optimizer, optimizer_id, best_model,
                   best_model_id, savepath_dict, tb_writer, tb_scalars, current_epoch, files,
                   locals, raised, n_fit, completed, hist, fresh, before, calls>>

\* a slip: the loss handed to the tracking before it is recorded
ValidateEpoch_unrecorded ==
    /\ pc = "val"
    /\ \E bl \in EpochValBatchLosses :
        LET L == calc_val_loss(losses, bl) IN
        vloss' = L["val_loss"][Len(L["val_loss"])]
    /\ pc' = "track"
    /\ UNCHANGED <<cls, train_args, model, model_id, params, lr, optimizer, optimizer_id, best_model, best_model_id, detached, savepath_dict, tb_writer, tb_scalars,
                   current_epoch, losses, files, initial_epoch, loop_i, tensorboard_path, best_vloss,
                   count_lr_no_improve, count_early_stop, raised, n_fit, completed, hist, fresh, before, calls>>

\* lines 385-386
ValidateEpoch ==
    /\ pc = "val"
    /\ \E bl \in EpochValBatchLosses :
        LET L == calc_val_loss(losses, bl) IN
        /\ losses' = L
        /\ vloss' = L["val_loss"][Len(L["val_loss"])]
    /\ pc' = "track"
    /\ UNCHANGED <<cls, train_args, model, model_id, params, lr, optimizer, optimizer_id, best_model, best_model_id, detached, savepath_dict, tb_writer, tb_scalars,
                   current_epoch, files, initial_epoch, loop_i, tensorboard_path, best_vloss,
                   count_lr_no_improve, count_early_stop, raised, n_fit, completed, hist, fresh, before, calls>>

\* line 385 on a loader with a batch that has no 'image': data[name] of
\* line 274 raises KeyError before anything is recorded, and it escapes from fit
ValidateEpochRaises ==
    /\ pc = "val"
    /\ raised' = "KeyError"
    /\ pc' = "idle"
    /\ UNCHANGED <<trainer, locals, n_fit, completed, hist, fresh, before, calls>>

\* a slip: a validation loss equal to the best counts as an improvement
TrackBest_on_equal ==
    /\ pc = "track"
    /\ IF ~FLt(best_vloss, vloss)
       THEN /\ best_vloss' = vloss
            /\ best_model' = ValLen
            /\ best_model_id' = model_id
            /\ detached' = -1
            /\ UNCHANGED <<count_lr_no_improve, count_early_stop>>
       ELSE /\ count_lr_no_improve' = count_lr_no_improve + 1
            /\ count_early_stop' = count_early_stop + 1
            /\ UNCHANGED <<best_vloss, best_model, best_model_id, detached>>
    /\ hist' = Append(hist, [vloss |-> vloss, params |-> params,
                              improved |-> ~FLt(best_vloss, vloss)])
    /\ pc' = "reduce"
    /\ UNCHANGED <<cls, train_args, model, model_id, params, lr, optimizer, optimizer_id, savepath_dict, tb_writer, tb_scalars,
                   current_epoch, losses, files, initial_epoch, loop_i, tensorboard_path, vloss,
                   raised, n_fit, completed, fresh, before, calls>>

\* a slip: the best model written to disk as soon as it is taken
TrackBest_saving ==
    /\ pc = "track"
    /\ IF improved(vloss, best_vloss)
       THEN /\ best_vloss' = vloss
            /\ best_model' = ValLen
            /\ best_model_id' = model_id
            /\ detached' = -1
            /\ files' = Append(files, [path |-> save_path(savepath_dict, current_epoch),
                                       content |-> best_model_content(ValLen, params)])
            /\ UNCHANGED <<count_lr_no_improve, count_early_stop>>
       ELSE /\ count_lr_no_improve' = count_lr_no_improve + 1
            /\ count_early_stop' = count_early_stop + 1
            /\ UNCHANGED <<best_vloss, best_model, best_model_id, detached, files>>
    /\ hist' = Append(hist, [vloss |-> vloss, params |-> params,
                              improved |-> improved(vloss, best_vloss)])
    /\ pc' = "reduce"
    /\ UNCHANGED <<cls, train_args, model, model_id, params, lr, optimizer, optimizer_id, savepath_dict, tb_writer, tb_scalars,
                   current_epoch, losses, initial_epoch, loop_i, tensorboard_path, vloss,
                   raised, n_fit, completed, fresh, before, calls>>

\* a slip: both counters set back to 0 by an improving epoch
TrackBest_resetting ==
    /\ pc = "track"
    /\ IF improved(vloss, best_vloss)
       THEN /\ best_vloss' = vloss
            /\ best_model' = ValLen
            /\ best_model_id' = model_id
            /\ detached' = -1
            /\ count_lr_no_improve' = 0
            /\ count_early_stop' = 0
       ELSE /\ count_lr_no_improve' = count_lr_no_improve + 1
            /\ count_early_stop' = count_early_stop + 1
            /\ UNCHANGED <<best_vloss, best_model, best_model_id, detached>>
    /\ hist' = Append(hist, [vloss |-> vloss, params |-> params,
                              improved |-> improved(vloss, best_vloss)])
    /\ pc' = "reduce"
    /\ UNCHANGED <<cls, train_args, model, model_id, params, lr, optimizer, optimizer_id, savepath_dict, tb_writer, tb_scalars,
                   current_epoch, losses, files, initial_epoch, loop_i, tensorboard_path, vloss,
                   raised, n_fit, completed, fresh, before, calls>>

\* lines 389-394
TrackBest ==
    /\ pc = "track"
    /\ IF improved(vloss, best_vloss)
       THEN /\ best_vloss' = vloss
            /\ best_model' = ValLen
            /\ best_model_id' = model_id
            /\ detached' = -1
            /\ UNCHANGED <<count_lr_no_improve, count_early_stop>>
       ELSE /\ count_lr_no_improve' = count_lr_no_improve + 1
            /\ count_early_stop' = count_early_stop + 1
            /\ UNCHANGED <<best_vloss, best_model, best_model_id, detached>>
    /\ hist' = Append(hist, [vloss |-> vloss, params |-> params,
                              improved |-> improved(vloss, best_vloss)])
    /\ pc' = "reduce"
    /\ UNCHANGED <<cls, train_args, model, model_id, params, lr, optimizer, optimizer_id, savepath_dict, tb_writer, tb_scalars,
                   current_epoch, losses, files, initial_epoch, loop_i, tensorboard_path, vloss,
                   raised, n_fit, completed, fresh, before, calls>>

\* line 397: the ValueError of _reduce_lr_on_plateau escapes from fit
ReduceLr ==
    /\ pc = "reduce"
    /\ LET r == reduce_lr_on_plateau(optimizer, count_lr_no_improve, lr, train_args) IN
        /\ lr' = r.lr
        /\ count_lr_no_improve' = r.count
        /\ raised' = r.raised
        /\ pc' = (IF r.raised = "none" THEN "log" ELSE "idle")
    /\ UNCHANGED <<cls, train_args, model, model_id, params, optimizer, optimizer_id, best_model, best_model_id, detached, savepath_dict,
                   tb_writer, tb_scalars, current_epoch, losses, files, initial_epoch, loop_i,
                   tensorboard_path, best_vloss, vloss, count_early_stop, n_fit, completed,
                   hist, fresh, before, calls>>

\* fit, lines 400-402: tensorboard_path, when given, is joined to homepath
\* again on every epoch and handed to write_on_tensorboard
log_epoch(sp, writer, scalars, L, epoch, tbp) ==
    LET path == IF tbp # NoPath THEN join(sp["homepath"], tbp) ELSE NoPath
        w == write_on_tensorboard(sp, writer, scalars, L, epoch, path)
    IN [tensorboard_path |-> path, savepath_dict |-> w.savepath_dict,
        tb_writer |-> w.tb_writer, tb_scalars |-> w.tb_scalars]

\* a slip: the counter left alone on the epoch that stops early
EndEpoch_skipping_last ==
    /\ pc = "log"
    /\ LET w == log_epoch(savepath_dict, tb_writer, tb_scalars, losses, current_epoch,
                          tensorboard_path)
       IN /\ tensorboard_path' = w.tensorboard_path
          /\ savepath_dict' = w.savepath_dict
          /\ tb_writer' = w.tb_writer
          /\ tb_scalars' = w.tb_scalars
    /\ current_epoch' = (IF early_stop(count_early_stop, train_args)
                         THEN current_epoch ELSE current_epoch + 1)
    /\ pc' = "check"
    /\ UNCHANGED <<cls, train_args, model, model_id, params, lr, optimizer, optimizer_id, best_model, best_model_id, detached,
                   losses, files, initial_epoch, loop_i, best_vloss, vloss,
                   count_lr_no_improve, count_early_stop, raised, n_fit, completed, hist,
                   fresh, before, calls>>

\* lines 400-403
EndEpoch ==
    /\ pc = "log"
    /\ LET w == log_epoch(savepath_dict, tb_writer, tb_scalars, losses, current_epoch,
                          tensorboard_path)
       IN /\ tensorboard_path' = w.tensorboard_path
          /\ savepath_dict' = w.savepath_dict
          /\ tb_writer' = w.tb_writer
          /\ tb_scalars' = w.tb_scalars
    /\ current_epoch' = current_epoch + 1
    /\ pc' = "check"
    /\ UNCHANGED <<cls, train_args, model, model_id, params, lr, optimizer, optimizer_id, best_model, best_model_id, detached,
                   losses, files, initial_epoch, loop_i, best_vloss, vloss,
                   count_lr_no_improve, count_early_stop, raised, n_fit, completed, hist,
                   fresh, before, calls>>

\* lines 406-408, and back to line 377
CheckEarlyStop ==
    /\ pc = "check"
    /\ completed' = completed + 1
    /\ IF early_stop(count_early_stop, train_args)
       THEN /\ pc' = "save"
            /\ UNCHANGED loop_i
       ELSE /\ pc' = "train"
            /\ loop_i' = loop_i + 1
    /\ UNCHANGED <<trainer, initial_epoch, tensorboard_path, best_vloss, vloss,
                   count_lr_no_improve, count_early_stop, raised, n_fit, hist, fresh, before,
                   calls>>

\* line 410
SaveBest ==
    /\ pc = "save"
    /\ files' = Append(files, [path |-> save_path(savepath_dict, current_epoch),
                               content |-> best_model_content(best_model, held)])
    /\ pc' = "idle"
    /\ UNCHANGED <<cls, train_args, model, model_id, params, lr, optimizer, optimizer_id, best_model, best_model_id, detached, savepath_dict, tb_writer, tb_scalars,
                   current_epoch, losses, locals, raised, n_fit, completed, hist, fresh, before, calls>>

\* calc_val_loss, lines 291-299, called outside of fit on a loader whose
\* batches have the losses bl
CalcValLoss(bl) ==
    /\ pc = "idle"
    /\ n_calls < MaxCalls
    /\ n_calls' = n_calls + 1
    /\ IF model = "None"
       THEN /\ raised' = "ValueError"
            /\ last_call' = Call("calc_val_loss", bl, FALSE)
            /\ UNCHANGED losses
       ELSE /\ raised' = "none"
            /\ last_call' = Call("calc_val_loss", bl, Len(bl) > 0)
            /\ losses' = calc_val_loss(losses, bl)
    /\ UNCHANGED <<cls, train_args, model, model_id, params, lr, optimizer, optimizer_id, best_model, best_model_id, detached,
                   savepath_dict, tb_writer, tb_scalars, current_epoch, files, pc, locals,
                   n_fit, completed, hist, fresh, before>>

\* calc_val_loss on a loader whose batch number k is the first that has no
\* 'image': with a model, lines 295-297 run the model on the k - 1 batches
\* before it, then data[name] of line 274 raises KeyError, and nothing is
\* recorded
CalcValLossRaises(k) ==
    /\ pc = "idle"
    /\ n_calls < MaxCalls
    /\ n_calls' = n_calls + 1
    /\ raised' = (IF model = "None" THEN "ValueError" ELSE "KeyError")
    /\ last_call' = Call("calc_val_loss", [no_image |-> k], model # "None" /\ k > 1)
    /\ UNCHANGED <<trainer, pc, locals, n_fit, completed, hist, fresh, before>>

\* calc_val_loss on a trainer with a model: before its first fit on any
\* loader, and between its first fit and the next on a loader of one batch
FirstCalcValLoss ==
    model # "None" /\ n_fit = 0 /\ \E bl \in ValBatchLosses : CalcValLoss(bl)
LaterCalcValLoss ==
    model # "None" /\ n_fit = 1 /\ \E bl \in {b \in ValBatchLosses : Len(b) = 1} : CalcValLoss(bl)

\* a trainer whose constructor binds the model, fitted without TensorBoard
Next ==
    \/ FirstInit
    \/ \E ie \in 0 .. MaxInitialEpoch : FitStart(ie, NoPath)
    \/ LoopExit
    \/ TrainOneEpochBase
    \/ TrainOneEpochOverride
    \/ ValidateEpoch
    \/ ValidateEpochRaises
    \/ TrackBest
    \/ ReduceLr
    \/ EndEpoch
    \/ CheckEarlyStop
    \/ SaveBest
    \/ FirstCalcValLoss
    \/ LaterCalcValLoss

Spec == Init /\ [][Next]_vars

(* --------------------- calls made outside of fit ----------------------- *)
\* record_metrics, lines 109-117
RecordMetrics(metrics, phase) ==
    /\ pc = "idle"
    /\ n_calls < MaxCalls
    /\ losses' = record_metrics(losses, metrics, phase)
    /\ raised' = "none"
    /\ n_calls' = n_calls + 1
    /\ last_call' = Call("record_metrics", [metrics |-> metrics, phase |-> phase], FALSE)
    /\ UNCHANGED <<cls, train_args, model, model_id, params, lr, optimizer, optimizer_id, best_model, best_model_id, detached, savepath_dict, tb_writer, tb_scalars,
                   current_epoch, files, pc, locals, n_fit, completed, hist, fresh, before>>

\* BaseTrainer.train_one_epoch, lines 209-213: ValueError without a model,
\* and with one the TypeError of enumerate(data_loader, desc='Train')
TrainOneEpoch ==
    /\ pc = "idle"
    /\ n_calls < MaxCalls
    /\ n_calls' = n_calls + 1
    /\ cls = "BaseTrainer"
    /\ \E bl \in TrainBatchLosses :
        last_call' = Call("train_one_epoch", bl, FALSE)
    /\ raised' = (IF model = "None" THEN "ValueError" ELSE "TypeError")
    /\ UNCHANGED <<trainer, pc, locals, n_fit, completed, hist, fresh, before>>

\* an overriding train_one_epoch called outside of fit. With no model bound
\* the pass fails before any batch, with the error this class raises for a
\* missing model (ValueError, as at lines 209-210); with a model and no
\* optimizer self.optimizer.zero_grad() raises AttributeError before the
\* model is run
TrainOneEpochOverrideCall ==
    /\ pc = "idle"
    /\ n_calls < MaxCalls
    /\ n_calls' = n_calls + 1
    /\ cls = "Subclass"
    /\ \E bl \in TrainBatchLosses :
        IF model = "None"
        THEN /\ raised' = "ValueError"
             /\ last_call' = Call("train_one_epoch", bl, FALSE)
             /\ UNCHANGED <<params, detached, losses>>
        ELSE IF optimizer = "None"
        THEN /\ raised' = "AttributeError"
             /\ last_call' = Call("train_one_epoch", bl, FALSE)
             /\ UNCHANGED <<params, detached, losses>>
        ELSE /\ params' = step_params(Len(bl))
             /\ detached' = step_detached(Len(bl))
             /\ losses' = train_one_epoch(losses, bl)
             /\ last_call' = Call("train_one_epoch", bl, TRUE)
             /\ raised' = "none"
    /\ UNCHANGED <<cls, train_args, model, model_id, lr, optimizer, optimizer_id, best_model,
                   best_model_id, savepath_dict, tb_writer, tb_scalars, current_epoch, files,
                   pc, locals, n_fit, completed, hist, fresh, before>>

\* _default_train_args, lines 63-81, called once more
DefaultTrainArgs ==
    /\ pc = "idle"
    /\ n_calls < MaxCalls
    /\ n_calls' = n_calls + 1
    /\ train_args' = default_train_args(train_args)
    /\ raised' = "none"
    /\ last_call' = Call("_default_train_args", train_args, FALSE)
    /\ UNCHANGED <<cls, model, model_id, params, lr, optimizer, optimizer_id, best_model, best_model_id, detached, savepath_dict, tb_writer, tb_scalars,
                   current_epoch, losses, files, pc, locals, n_fit, completed, hist, fresh, before>>

\* a slip: the epoch counter set before the model is looked at
FitNoModel_after_epoch ==
    /\ pc = "idle"
    /\ n_calls < MaxCalls
    /\ n_calls' = n_calls + 1
    /\ model = "None"
    /\ raised' = "ValueError"
    /\ \E ie \in 0 .. MaxInitialEpoch :
        /\ last_call' = Call("fit", ie, FALSE)
        /\ current_epoch' = ie
    /\ UNCHANGED <<cls, train_args, model, model_id, params, lr, optimizer, optimizer_id, best_model, best_model_id, detached, savepath_dict, tb_writer, tb_scalars,
                   losses, files, pc, locals, n_fit, completed, hist, fresh, before>>

\* fit, lines 370-371: no model
FitNoModel ==
    /\ pc = "idle"
    /\ n_calls < MaxCalls
    /\ n_calls' = n_calls + 1
    /\ model = "None"
    /\ raised' = "ValueError"
    /\ \E ie \in 0 .. MaxInitialEpoch : last_call' = Call("fit", ie, FALSE)
    /\ UNCHANGED <<trainer, pc, locals, n_fit, completed, hist, fresh, before>>

\* _reduce_lr_on_plateau(count), lines 315-326, called outside of fit
ReduceLrOnPlateau(count) ==
    /\ pc = "idle"
    /\ n_calls < MaxCalls
    /\ n_calls' = n_calls + 1
    /\ lr' = reduce_lr_on_plateau(optimizer, count, lr, train_args).lr
    /\ raised' = reduce_lr_on_plateau(optimizer, count, lr, train_args).raised
    /\ last_call' = Call("_reduce_lr_on_plateau", count, FALSE)
    /\ UNCHANGED <<cls, train_args, model, model_id, params, optimizer, optimizer_id, best_model, best_model_id, detached,
                   savepath_dict, tb_writer, tb_scalars, current_epoch, losses, files, pc,
                   locals, n_fit, completed, hist, fresh, before>>

\* init_savepath, lines 189-193
InitSavepath ==
    /\ pc = "idle"
    /\ n_calls < MaxCalls
    /\ n_calls' = n_calls + 1
    /\ savepath_dict' = init_savepath(savepath_dict)
    /\ raised' = "none"
    /\ last_call' = Call("init_savepath", <<>>, FALSE)
    /\ UNCHANGED <<cls, train_args, model, model_id, params, lr, optimizer, optimizer_id, best_model, best_model_id, detached,
                   tb_writer, tb_scalars, current_epoch, losses, files, pc, locals, n_fit,
                   completed, hist, fresh, before>>

\* enable_tensorboard(savepath), lines 154-162
EnableTensorboard(savepath) ==
    /\ pc = "idle"
    /\ n_calls < MaxCalls
    /\ n_calls' = n_calls + 1
    /\ savepath_dict' = enable_tensorboard(savepath_dict, savepath).savepath_dict
    /\ tb_writer' = enable_tensorboard(savepath_dict, savepath).tb_writer
    /\ raised' = "none"
    /\ last_call' = Call("enable_tensorboard", savepath, FALSE)
    /\ UNCHANGED <<cls, train_args, model, model_id, params, lr, optimizer, optimizer_id, best_model, best_model_id, detached,
                   tb_scalars, current_epoch, losses, files, pc, locals, n_fit,
                   completed, hist, fresh, before>>

\* write_on_tensorboard(tensorboard_path), lines 165-173
WriteOnTensorboard(path) ==
    /\ pc = "idle"
    /\ n_calls < MaxCalls
    /\ n_calls' = n_calls + 1
    /\ LET w == write_on_tensorboard(savepath_dict, tb_writer, tb_scalars, losses,
                                     current_epoch, path)
       IN /\ savepath_dict' = w.savepath_dict
          /\ tb_writer' = w.tb_writer
          /\ tb_scalars' = w.tb_scalars
    /\ raised' = "none"
    /\ last_call' = Call("write_on_tensorboard", path, FALSE)
    /\ UNCHANGED <<cls, train_args, model, model_id, params, lr, optimizer, optimizer_id, best_model, best_model_id, detached,
                   current_epoch, losses, files, pc, locals, n_fit,
                   completed, hist, fresh, before>>

\* set_optimizer(**self.train_args), lines 133-138
SetOptimizer ==
    /\ pc = "idle"
    /\ n_calls < MaxCalls
    /\ n_calls' = n_calls + 1
    /\ IF Truthy(model)
       THEN /\ optimizer' = "bound"
            /\ optimizer_id' = model_id
            /\ lr' = optimizer_lr(train_args)
            /\ raised' = "none"
       ELSE /\ raised' = "ValueError"
            /\ UNCHANGED <<optimizer, optimizer_id, lr>>
    /\ last_call' = Call("set_optimizer", train_args, FALSE)
    /\ UNCHANGED <<cls, train_args, model, model_id, params, best_model, best_model_id, detached, savepath_dict, tb_writer, tb_scalars,
                   current_epoch, losses, files, pc, locals, n_fit, completed, hist, fresh, before>>

\* a slip: the encoder looked up before the input is looked at
infer_embeddings_encoder_first(data, m) ==
    IF m = "None" THEN "AttributeError"
    ELSE IF data = "None" THEN "ValueError"
    ELSE IF data = "DataLoader" THEN "TypeError"
    ELSE "none"

\* infer_embeddings, lines 427-432: the exception it ends with
infer_embeddings_raises(data, m) ==
    IF data = "None" THEN "ValueError"
    ELSE IF m = "None" THEN "AttributeError"    \* self.model.encoder on None
    ELSE IF data = "DataLoader" THEN "TypeError" \* line 245, enumerate(..., desc='Infer')
    ELSE "none"

\* infer_reconstruction, lines 449-458: the exception it ends with
infer_reconstruction_raises(data, m) ==
    IF data = "None" THEN "ValueError"
    ELSE IF data = "DataLoader" THEN "TypeError" \* line 245, enumerate(..., desc='Infer')
    ELSE IF m = "None" THEN "TypeError"          \* self.model(...) on None
    ELSE "none"

\* infer_embeddings: the encoder runs when nothing was raised
InferEmbeddings(data) ==
    /\ pc = "idle"
    /\ n_calls < MaxCalls
    /\ n_calls' = n_calls + 1
    /\ raised' = infer_embeddings_raises(data, model)
    /\ last_call' = Call("infer_embeddings", data, infer_embeddings_raises(data, model) = "none")
    /\ UNCHANGED <<trainer, pc, locals, n_fit, completed, hist, fresh, before>>

\* infer_reconstruction: the model runs when nothing was raised
InferReconstruction(data) ==
    /\ pc = "idle"
    /\ n_calls < MaxCalls
    /\ n_calls' = n_calls + 1
    /\ raised' = infer_reconstruction_raises(data, model)
    /\ last_call' = Call("infer_reconstruction", data,
                         infer_reconstruction_raises(data, model) = "none")
    /\ UNCHANGED <<trainer, pc, locals, n_fit, completed, hist, fresh, before>>

\* the trainer's first fit, with the default initial_epoch
FirstFit == n_fit = 0 /\ \E tb \in TensorboardPaths : FitStart(0, tb)

\* a further fit, on a model bound since the optimizer was built
FitAfterRebinding ==
    n_fit > 0 /\ optimizer = "bound" /\ optimizer_id # model_id /\ FitStart(0, NoPath)

\* a trainer as constructed by a caller who gave any part of the training arguments
InitCalls ==
    /\ cls \in {"BaseTrainer", "Subclass"}
    /\ train_args \in CallerArgs
    /\ model = "None"
    /\ model_id = 0
    /\ params = 0
    /\ lr = Float(0, 1)
    /\ optimizer = "None"
    /\ optimizer_id = 0
    /\ best_model = 0
    /\ best_model_id = 0
    /\ detached = -1
    /\ savepath_dict = [k \in {"homepath"} |-> HomePath]
    /\ tb_writer = NoPath
    /\ tb_scalars = <<>>
    /\ current_epoch = 0
    /\ losses = <<>>
    /\ files = <<>>
    /\ pc = "idle"
    /\ initial_epoch = 0
    /\ tensorboard_path = NoPath
    /\ loop_i = 0
    /\ best_vloss = Inf
    /\ vloss = Inf
    /\ count_lr_no_improve = 0
    /\ count_early_stop = 0
    /\ raised = "none"
    /\ n_fit = 0
    /\ completed = 0
    /\ hist = <<>>
    /\ fresh = TRUE
    /\ before = [best_model |-> 0, content |-> best_model_content(0, 0), resumed |-> FALSE]
    /\ n_calls = 0
    /\ last_call = Call("none", <<>>, FALSE)

NextCalls ==
    \/ \E m \in Models : InitModel(m)
    \/ FirstFit
    \/ FitAfterRebinding
    \/ LoopExit
    \/ TrainOneEpochBase
    \/ TrainOneEpochNoOptimizer
    \/ TrainOneEpochOverride
    \/ ValidateEpoch
    \/ ValidateEpochRaises
    \/ TrackBest
    \/ ReduceLr
    \/ EndEpoch
    \/ CheckEarlyStop
    \/ SaveBest
    \/ \E metrics \in RecordInputs, phase \in Phases : RecordMetrics(metrics, phase)
    \/ TrainOneEpoch
    \/ TrainOneEpochOverrideCall
    \/ \E bl \in CallBatchLosses : CalcValLoss(bl)
    \/ \E k \in 1 .. MaxBatches : CalcValLossRaises(k)
    \/ \E count \in 0 .. MaxPatience : ReduceLrOnPlateau(count)
    \/ DefaultTrainArgs
    \/ FitNoModel
    \/ SetOptimizer
    \/ InitSavepath
    \/ \E savepath \in TensorboardPaths \ {NoPath} : EnableTensorboard(savepath)
    \/ \E path \in TensorboardPaths : WriteOnTensorboard(path)
    \/ \E data \in InferInputs : InferEmbeddings(data)
    \/ \E data \in InferInputs : InferReconstruction(data)

SpecCalls == InitCalls /\ [][NextCalls]_vars

(* ------------------------ history of the run --------------------------- *)
\* number of epochs of the current fit that improved on the best so far
NumImproved == Cardinality({i \in DOMAIN hist : hist[i].improved})

\* length of the run of non-improving epochs the current fit ends with
Plateau ==
    LET last_improved == {i \in DOMAIN hist : hist[i].improved}
    IN Len(hist) - (IF last_improved = {} THEN 0
                    ELSE CHOOSE i \in last_improved : \A j \in last_improved : j <= i)

\* math.isfinite
IsFinite(x) == x # Inf /\ x # NaN

\* every validation loss of the current fit is a finite number
FiniteLosses == \A i \in DOMAIN hist : IsFinite(hist[i].vloss)

\* each epoch of the current fit had a lower validation loss than the one before
StrictlyDecreasing == \A i \in 2 .. Len(hist) : FLt(hist[i].vloss, hist[i - 1].vloss)

\* the loop of the current fit was left by the break of line 408
StoppedEarly == pc = "save" /\ completed > 0 /\ early_stop(count_early_stop, train_args)

(* -------------------------------- C1 ----------------------------------- *)
\* C1 as stated: when early stopping fires after earlystop_patience consecutive
\* non-improving epochs (earlystop_patience <= max_epochs), fit has stopped at
\* epoch initial_epoch + earlystop_patience.
C1_StopsAtInitialPlusPatience ==
    (/\ StoppedEarly
     /\ train_args.earlystop_patience >= 1
     /\ train_args.earlystop_patience <= train_args.max_epochs
     /\ Plateau >= train_args.earlystop_patience)
    => current_epoch = initial_epoch + train_args.earlystop_patience

\* C1 amended: with earlystop_patience >= 1 the loop never starts another epoch
\* once count_early_stop has reached earlystop_patience, and it stops right
\* after the epoch on which it does, at epoch initial_epoch + earlystop_patience
\* + the number of improving epochs of the run: at exactly initial_epoch +
\* earlystop_patience when no epoch of the run improved.
C1_StopsWhenCountReachesPatience ==
    /\ (pc \in {"train", "val", "track"} /\ train_args.earlystop_patience >= 1)
          => count_early_stop < train_args.earlystop_patience
    /\ (StoppedEarly /\ train_args.earlystop_patience >= 1)
          => /\ count_early_stop = train_args.earlystop_patience
             /\ current_epoch = initial_epoch + train_args.earlystop_patience + NumImproved
             /\ (NumImproved = 0 => current_epoch = initial_epoch + train_args.earlystop_patience)

\* a run of two epochs, neither improving, stopped early with patience 2
C1_Witness ==
    /\ StoppedEarly
    /\ train_args.earlystop_patience = 2
    /\ NumImproved = 0
    /\ Len(hist) = 2

(* -------------------------------- C2 ----------------------------------- *)
\* C2 as stated: if the validation loss strictly decreases on every epoch,
\* early stopping does not cut the run short: the loop runs every epoch up to
\* max_epochs.
C2_DecreasingRunsAllEpochs ==
    (pc = "save" /\ completed > 0 /\ StrictlyDecreasing)
    => current_epoch >= train_args.max_epochs

\* C2 amended: on a trainer whose ledger held no val_loss entry when fit
\* started (every entry it holds is of this run) and with earlystop_patience
\* >= 1, if the validation loss is finite on every epoch and strictly
\* decreases, every epoch improves, count_early_stop stays 0 (below
\* earlystop_patience) and the loop is left only when every epoch up to
\* max_epochs has run.
C2_FreshDecreasingRunsAllEpochs ==
    (/\ pc \notin {"idle", "track"}
     /\ ValLen = Len(hist)
     /\ train_args.earlystop_patience >= 1
     /\ FiniteLosses
     /\ StrictlyDecreasing)
    => /\ NumImproved = Len(hist)
       /\ count_early_stop = 0
       /\ ~early_stop(count_early_stop, train_args)
       /\ pc = "save" => /\ current_epoch >= train_args.max_epochs
                         /\ completed = (IF train_args.max_epochs > initial_epoch
                                         THEN train_args.max_epochs - initial_epoch ELSE 0)

\* three epochs of strictly decreasing loss and no earlier entry, loop exhausted
C2_Witness ==
    /\ pc = "save"
    /\ ValLen = Len(hist)
    /\ train_args.earlystop_patience >= 1
    /\ FiniteLosses
    /\ StrictlyDecreasing
    /\ Len(hist) = 3
    /\ initial_epoch = 0

(* -------------------------------- C3 ----------------------------------- *)
\* C3: the learning rate, built at or above min_lr, is never below min_lr.
C3_LrNeverBelowMinLr ==
    (optimizer = "bound" /\ ~FLt(train_args.lr, train_args.min_lr))
    => ~FLt(lr, train_args.min_lr)

(* -------------------------------- C4 ----------------------------------- *)
\* C4 as stated: once the optimizer is built, no step of a run raises the
\* learning rate, whatever reducelr_increment is configured.
C4_LrNeverRises == [][optimizer = "bound" => ~FLt(lr, lr')]_vars

\* C4 amended: with 0 <= reducelr_increment <= 1 and a learning rate >= 0, no
\* step of a run raises the learning rate.
C4_LrNeverRisesForShrinkingIncrement ==
    [][(/\ optimizer = "bound"
        /\ ~FLt(Float(1, 1), train_args.reducelr_increment)
        /\ ~FLt(train_args.reducelr_increment, Float(0, 1))
        /\ ~FLt(lr, Float(0, 1)))
       => ~FLt(lr, lr')]_vars

\* the learning rate has been decayed twice by an increment of 1/2
C4_Witness ==
    /\ train_args.reducelr_increment = Float(1, 2)
    /\ lr = Float(1, 4)
    /\ Len(hist) >= 2

(* -------------------------------- C5 ----------------------------------- *)
\* C5: best_model and the best validation loss of a run are replaced only by
\* the step that follows an epoch's validation, and only when that epoch's
\* loss is strictly less than the best so far; on an equal or greater loss
\* both are left as they are.
C5_BestReplacedOnlyOnStrictImprovement ==
    [][/\ (best_model' # best_model \/ (best_vloss' # best_vloss /\ pc # "idle"))
            => (pc = "track" /\ FLt(vloss, best_vloss))
       /\ (pc = "track" /\ ~FLt(vloss, best_vloss))
            => (best_model' = best_model /\ best_vloss' = best_vloss)
       /\ (pc = "track" /\ FLt(vloss, best_vloss))
            => (best_model' # best_model /\ best_vloss' = vloss)]_vars

\* an epoch whose loss equalled the best so far has left the earlier snapshot
C5_Witness ==
    /\ pc = "reduce"
    /\ Len(hist) >= 2
    /\ vloss = best_vloss
    /\ ~hist[Len(hist)].improved
    /\ best_model > 0
    /\ best_model < ValLen

(* -------------------------------- C6 ----------------------------------- *)
\* the first epoch of the current fit with the lowest validation loss
LowestEpoch ==
    CHOOSE i \in DOMAIN hist :
        /\ \A j \in DOMAIN hist : ~FLt(hist[j].vloss, hist[i].vloss)
        /\ \A j \in 1 .. (i - 1) : FLt(hist[i].vloss, hist[j].vloss)

\* C6: once an epoch of the run has improved, the best-model snapshot, in
\* memory and in the file fit writes, holds the parameters as they were at the
\* end of the epoch with the lowest validation loss of the run.
C6_SnapshotHoldsBestEpochParams ==
    /\ (pc # "idle" /\ NumImproved > 0)
          => best_model_content(best_model, held).params = hist[LowestEpoch].params
    /\ (pc = "idle" /\ raised = "none" /\ n_fit > 0 /\ NumImproved > 0)
          => files[Len(files)].content.params = hist[LowestEpoch].params

(* -------------------------------- C7 ----------------------------------- *)
\* C7: current_epoch is initial_epoch plus the number of epochs the fit has
\* completed, at every epoch boundary and when fit ends, the epoch that stops
\* early included; it is set to initial_epoch when fit starts and otherwise
\* changes only by the + 1 that ends an epoch.
C7_EpochCounter ==
    /\ [](pc \in {"train", "save"} => /\ current_epoch = initial_epoch + completed
                                      /\ completed = Len(hist))
    /\ []((pc = "idle" /\ raised = "none" /\ n_fit > 0)
             => current_epoch = initial_epoch + completed)
    /\ [](pc = "check" => current_epoch = initial_epoch + Len(hist))
    /\ [][current_epoch' # current_epoch
            => \/ (pc = "log" /\ current_epoch' = current_epoch + 1)
               \/ (pc = "idle" /\ pc' = "train" /\ current_epoch' = initial_epoch')]_vars

\* a fit from initial_epoch 1 that stopped early after two epochs
C7_Witness ==
    /\ StoppedEarly
    /\ initial_epoch = 1
    /\ completed = 2
    /\ current_epoch = 3

(* -------------------------------- C8 ----------------------------------- *)
\* C8 as stated: a fit writes nothing to storage, neither a file of
\* torch.save nor anything of the TensorBoard log, before its loop has ended;
\* a fit that ends writes its one file then, and a fit that an exception
\* leaves writes nothing.
C8_NoStorageWriteBeforeTermination ==
    [][/\ (pc # "idle" /\ (files' # files \/ tb_scalars' # tb_scalars \/ tb_writer' # tb_writer))
            => (pc = "save" /\ pc' = "idle" /\ raised' = "none"
                /\ Len(files') = Len(files) + 1
                /\ SubSeq(files', 1, Len(files)) = files
                /\ tb_scalars' = tb_scalars /\ tb_writer' = tb_writer)
       /\ (pc # "idle" /\ pc' = "idle" /\ raised' = "none")
            => Len(files') = Len(files) + 1
       /\ (pc # "idle" /\ pc' = "idle" /\ raised' # "none") => files' = files]_vars

\* C8 amended: torch.save writes only as the last step of a fit whose loop
\* has ended, one file per such fit; no step inside an epoch calls it, and a
\* fit that an exception leaves has written no file. The TensorBoard log is
\* another matter: with a tensorboard_path every epoch appends its scalars to
\* the log (lines 400-402) before the loop goes on, and without one no epoch
\* writes to it.
C8_SavedOnceAtTermination ==
    [][/\ files' # files
            => (pc = "save" /\ pc' = "idle" /\ raised' = "none"
                /\ Len(files') = Len(files) + 1
                /\ SubSeq(files', 1, Len(files)) = files)
       /\ (pc # "idle" /\ pc' = "idle" /\ raised' = "none")
            => Len(files') = Len(files) + 1
       /\ (pc # "idle" /\ pc' = "idle" /\ raised' # "none") => files' = files
       /\ (pc # "idle" /\ (tb_scalars' # tb_scalars \/ tb_writer' # tb_writer))
            => (pc = "log" /\ tensorboard_path # NoPath)
       /\ (pc = "log" /\ pc' = "check")
            => IF tensorboard_path # NoPath
               THEN /\ Len(tb_scalars') = Len(tb_scalars) + 1
                    /\ SubSeq(tb_scalars', 1, Len(tb_scalars)) = tb_scalars
                    /\ tb_writer' # NoPath
               ELSE tb_scalars' = tb_scalars /\ tb_writer' = tb_writer]_vars

\* a fit with a tensorboard_path has run two epochs, each of which wrote to
\* the log, and then written its one file
C8_Witness ==
    /\ pc = "idle"
    /\ raised = "none"
    /\ n_fit = 1
    /\ completed = 2
    /\ tensorboard_path # NoPath
    /\ Len(tb_scalars) = 2
    /\ Len(files) = 1

(* -------------------------------- C9 ----------------------------------- *)
\* C9: the file a fit writes lies under savepath_dict['checkpoints'] and is
\* named from the epoch counter the loop ended with.
C9_SavedUnderCheckpoints ==
    (pc = "idle" /\ raised = "none" /\ n_fit > 0)
    => LET f == files[Len(files)].path IN
       /\ SubSeq(f, 1, Len(f) - 1) = savepath_dict["checkpoints"]
       /\ f[Len(f)] = "model_" \o ToString(current_epoch + 1) \o ".pt"

(* -------------------------------- C10 ---------------------------------- *)
\* C10: at every epoch boundary of a fit on a fresh trainer, and when it
\* ends (before anything else is called on the trainer), every key of the
\* ledger holds exactly as many values as epochs have completed, and both
\* phases are in the ledger once an epoch has.
C10_LedgerLengths ==
    (fresh /\ (pc \in {"train", "save"}
               \/ (pc = "idle" /\ raised = "none" /\ n_fit > 0 /\ last_call.op = "none")))
    => /\ \A k \in DOMAIN losses : Len(losses[k]) = completed
       /\ completed > 0 => {"train_loss", "val_loss"} \subseteq DOMAIN losses

\* a fit on a fresh trainer has ended after three epochs
C10_Witness ==
    /\ fresh
    /\ pc = "idle"
    /\ raised = "none"
    /\ last_call.op = "none"
    /\ completed = 3
    /\ DOMAIN losses = {"train_loss", "val_loss"}

(* ------------------------------- C11 ----------------------------------- *)
\* C11: the ledger is append-only under every operation: a key that is
\* present stays present, and the sequence it held before a step is a prefix
\* of the sequence it holds after the step.
C11_LedgerAppendOnly ==
    [][\A k \in DOMAIN losses :
          /\ k \in DOMAIN losses'
          /\ Len(losses'[k]) >= Len(losses[k])
          /\ SubSeq(losses'[k], 1, Len(losses[k])) = losses[k]]_vars

\* calls of record_metrics and calc_val_loss around a fit have all written to
\* the same ledger
C11_Witness ==
    /\ pc = "idle"
    /\ n_fit = 1
    /\ n_calls = MaxCalls
    /\ last_call.op = "calc_val_loss"
    /\ "train_loss" \in DOMAIN losses
    /\ Len(losses["train_loss"]) >= 2
    /\ ValLen >= 2

(* ------------------------------- C12 ----------------------------------- *)
\* what the ledger holds under a key, nothing when the key is absent
Entries(L, key) == IF key \in DOMAIN L THEN L[key] ELSE <<>>

\* the value record_metrics pairs with the one metric name "loss"
PairedWithLoss(metrics) == IF metrics.is_list THEN metrics.val[1] ELSE metrics

\* C12: recording under phase "train" a list-valued loss [a, b] for the
\* metric name "loss" appends a under "train_loss1" and b under "train_loss2",
\* once each, and adds nothing under "train_loss"; recording a scalar loss
\* appends it under "train_loss" and adds nothing under the suffixed keys.
C12_ListValuedLossKeys ==
    [][(/\ n_calls' = n_calls + 1
        /\ last_call'.op = "record_metrics"
        /\ last_call'.arg.phase = "train")
       => LET l == PairedWithLoss(last_call'.arg.metrics) IN
          IF l.is_list
          THEN /\ Len(l.val) = 2
               /\ {"train_loss1", "train_loss2"} \subseteq DOMAIN losses'
               /\ losses'["train_loss1"] = Append(Entries(losses, "train_loss1"), l.val[1])
               /\ losses'["train_loss2"] = Append(Entries(losses, "train_loss2"), l.val[2])
               /\ ("train_loss" \in DOMAIN losses') = ("train_loss" \in DOMAIN losses)
               /\ Entries(losses', "train_loss") = Entries(losses, "train_loss")
               /\ DOMAIN losses' = DOMAIN losses \cup {"train_loss1", "train_loss2"}
          ELSE /\ "train_loss" \in DOMAIN losses'
               /\ losses'["train_loss"] = Append(Entries(losses, "train_loss"), l.val)
               /\ DOMAIN losses' = DOMAIN losses \cup {"train_loss"}
               /\ \A k \in DOMAIN losses \ {"train_loss"} : losses'[k] = losses[k]]_vars

\* the list-valued loss [0, 1] has been recorded twice and no scalar loss
C12_Witness ==
    /\ last_call.op = "record_metrics"
    /\ last_call.arg.phase = "train"
    /\ PairedWithLoss(last_call.arg.metrics).is_list
    /\ "train_loss" \notin DOMAIN losses
    /\ {"train_loss1", "train_loss2"} \subseteq DOMAIN losses
    /\ losses["train_loss1"] = <<Float(0, 1), Float(0, 1)>>
    /\ losses["train_loss2"] = <<Float(1, 1), Float(1, 1)>>

(* ------------------------------- C13 ----------------------------------- *)
\* the step is a call of op made outside of fit
Called(op) == n_calls' = n_calls + 1 /\ last_call'.op = op

\* C13: on a bound model and a loader of k >= 1 batches, train_one_epoch
\* appends under "train_loss", and calc_val_loss under "val_loss", the sum of
\* the per-batch losses divided by k.
C13_PassRecordsMean ==
    [][\A op \in {"train_one_epoch", "calc_val_loss"} :
          (Called(op) /\ model = "bound" /\ Len(last_call'.arg) >= 1)
          => LET bl == last_call'.arg
                 key == IF op = "train_one_epoch" THEN "train_loss" ELSE "val_loss"
             IN /\ raised' = "none"
                /\ key \in DOMAIN losses'
                /\ losses'[key] = Append(Entries(losses, key), FDiv(FSum(bl), Len(bl)))]_vars

(* ------------------------------- C14 ----------------------------------- *)
\* C14: after _default_train_args (run on its own, or by an _init_model that
\* got as far as line 59) the five keys are all present, a key the caller
\* supplied keeps its value, a missing key has the documented default
\* (4, 0.1, 12, 1e-8, 100), and a dictionary that already holds the five keys
\* is left as it was.
C14_DefaultsFillMissingKeys ==
    [][(Called("_default_train_args") \/ (Called("_init_model") /\ raised' # "AttributeError"))
       => LET documented == [reducelr_patience |-> 4, reducelr_increment |-> Float(1, 10),
                             earlystop_patience |-> 12, min_lr |-> TenToMinus8,
                             max_epochs |-> 100]
          IN /\ DOMAIN train_args' = DOMAIN train_args \cup DOMAIN documented
             /\ \A k \in DOMAIN train_args : train_args'[k] = train_args[k]
             /\ \A k \in DOMAIN documented \ DOMAIN train_args : train_args'[k] = documented[k]
             /\ DOMAIN documented \subseteq DOMAIN train_args => train_args' = train_args]_vars

\* _default_train_args has run a second time on a dictionary in which the
\* caller supplied max_epochs and the first run filled in the rest
C14_Witness ==
    /\ model = "bound"
    /\ last_call.op = "_default_train_args"
    /\ last_call.arg = train_args
    /\ train_args.max_epochs = 2
    /\ train_args.reducelr_patience = 4
    /\ train_args.reducelr_increment = Float(1, 10)
    /\ train_args.earlystop_patience = 12
    /\ train_args.min_lr = TenToMinus8

(* ------------------------------- C15 ----------------------------------- *)
NeedModel == {"train_one_epoch", "calc_val_loss", "fit", "set_optimizer"}

\* C15 as stated: train_one_epoch, calc_val_loss, fit or set_optimizer on a
\* trainer without a model raises NotInitializedError and leaves the ledger,
\* the epoch counter, the optimizer and the best model as they were.
C15_NoModelRaisesNotInitializedError ==
    [][\A op \in NeedModel :
          (Called(op) /\ model = "None")
          => /\ raised' = "NotInitializedError"
             /\ UNCHANGED <<losses, current_epoch, optimizer, lr, best_model, detached>>]_vars

\* C15, amended: train_one_epoch, calc_val_loss, fit or set_optimizer on a
\* trainer without a model raises ValueError at once: no batch is run, fit
\* does not enter its loop, and the ledger, the epoch counter, the optimizer
\* with its learning rate, the parameters, the best model and the files
\* written are as they were.
C15_NoModelRaisesValueError ==
    [][\A op \in NeedModel :
          (Called(op) /\ model = "None")
          => /\ raised' = "ValueError"
             /\ ~last_call'.invoked
             /\ pc' = "idle"
             /\ model' = "None"
             /\ UNCHANGED <<losses, current_epoch, optimizer, lr, params, best_model, detached,
                            files, n_fit>>]_vars

\* fit has been refused on a trainer that has no model and a ledger with entries
C15_Witness ==
    /\ model = "None"
    /\ last_call.op = "fit"
    /\ raised = "ValueError"
    /\ losses # <<>>
    /\ optimizer = "None"
    /\ current_epoch = 0

(* ------------------------------- C16 ----------------------------------- *)
Infer == {"infer_embeddings", "infer_reconstruction"}

\* C16 as stated: infer_embeddings or infer_reconstruction given None raises
\* InvalidInputError before the model or its encoder is invoked.
C16_NoneRaisesInvalidInputError ==
    [][\A op \in Infer :
          (Called(op) /\ last_call'.arg = "None")
          => raised' = "InvalidInputError" /\ ~last_call'.invoked]_vars

\* C16, amended: infer_embeddings or infer_reconstruction given None raises
\* ValueError before the model or its encoder is looked up or invoked,
\* whether or not a model is bound, and changes nothing of the trainer.
C16_NoneRaisesValueError ==
    [][\A op \in Infer :
          (Called(op) /\ last_call'.arg = "None")
          => /\ raised' = "ValueError"
             /\ ~last_call'.invoked
             /\ UNCHANGED <<trainer, pc>>]_vars

\* infer_reconstruction has refused None on a trainer whose model is bound
C16_Witness ==
    /\ model = "bound"
    /\ last_call.op = "infer_reconstruction"
    /\ last_call.arg = "None"
    /\ raised = "ValueError"

(* ------------------------------- C17 ----------------------------------- *)
TrainLen == Len(Entries(losses, "train_loss"))

\* C17: inside fit every epoch keeps one order. The validation loss is
\* recorded only after the epoch's training loss; the best loss and model,
\* the two counters and the learning rate change only after the epoch's
\* validation loss is recorded (and is the loss they are judged by) and before
\* the epoch counter is incremented; the counter is incremented only after
\* the epoch was judged; the early-stop check closes the epoch after the
\* counter was incremented. The counts of ledger entries are those of a run
\* that started on an empty ledger.
C17_EpochOrder ==
    [][pc # "idle" =>
        /\ (fresh /\ TrainLen' # TrainLen)
             => TrainLen = completed /\ ValLen = completed /\ ValLen' = ValLen
        /\ (fresh /\ ValLen' # ValLen)
             => TrainLen = completed + 1 /\ ValLen = completed /\ TrainLen' = TrainLen
        /\ <<best_vloss, best_model, count_lr_no_improve, count_early_stop, lr>>'
             # <<best_vloss, best_model, count_lr_no_improve, count_early_stop, lr>>
             => /\ fresh => ValLen = completed + 1 /\ TrainLen = completed + 1
                /\ ValLen > 0
                /\ vloss = losses["val_loss"][ValLen]
                /\ losses' = losses
                /\ current_epoch = initial_epoch + completed
                /\ current_epoch' = current_epoch
        /\ lr' # lr => Len(hist) = completed + 1
        /\ count_early_stop' # count_early_stop => lr' = lr
        /\ current_epoch' # current_epoch
             => /\ fresh => ValLen = completed + 1
                /\ Len(hist) = completed + 1
                /\ completed' = completed
        /\ completed' # completed
             => /\ current_epoch = initial_epoch + completed + 1
                /\ Len(hist) = completed + 1
                /\ losses' = losses]_vars

\* the second epoch of a run on an empty ledger is through its early-stop
\* check: both passes recorded twice, a best model taken, the learning rate
\* decayed, the counter incremented twice
C17_Witness ==
    /\ fresh
    /\ pc \in {"train", "save"}
    /\ completed = 2
    /\ TrainLen = 2
    /\ ValLen = 2
    /\ best_model > 0
    /\ count_early_stop > 0
    /\ FLt(lr, train_args.lr)
    /\ current_epoch = initial_epoch + 2

(* ------------------------------- C18 ----------------------------------- *)
\* C18: the learning-rate decision of an epoch. When count_lr_no_improve has
\* reached reducelr_patience and the learning rate is above min_lr, the
\* learning rate is multiplied by reducelr_increment and the counter becomes
\* 0; in every other case the learning rate and the counter are as they were.
\* Nothing else of the trainer or the run changes.
C18_ReduceLrDecision ==
    [][pc = "reduce" =>
        /\ IF /\ count_lr_no_improve >= train_args.reducelr_patience
              /\ FLt(train_args.min_lr, lr)
           THEN /\ lr' = FMul(lr, train_args.reducelr_increment)
                /\ count_lr_no_improve' = 0
           ELSE /\ lr' = lr
                /\ count_lr_no_improve' = count_lr_no_improve
        /\ UNCHANGED <<count_early_stop, best_vloss, best_model, detached, current_epoch, losses,
                       params, optimizer>>]_vars

\* the learning rate was decayed down to min_lr, and on a later epoch the
\* counter is past the patience again: rate and counter are left alone
C18_Witness ==
    /\ pc = "log"
    /\ FLt(lr, train_args.lr)
    /\ lr = train_args.min_lr
    /\ count_lr_no_improve > 0
    /\ count_lr_no_improve >= train_args.reducelr_patience

(* ------------------------------- C19 ----------------------------------- *)
\* C19: at every epoch boundary of fit count_early_stop is the length of the
\* current plateau, the number of non-improving epochs in a row that end at
\* the epoch just completed; so when fit stops early, the last
\* earlystop_patience epochs were all non-improving.
C19_CountIsPlateauLength ==
    (pc \in {"train", "save"} /\ completed = Len(hist) /\ completed > 0)
    => /\ count_early_stop = Plateau
       /\ StoppedEarly => Plateau >= train_args.earlystop_patience

(* ------------------------------- C20 ----------------------------------- *)
\* C20: when an epoch's validation loss is judged, an improving epoch leaves
\* both counters as they are and a non-improving epoch adds exactly 1 to
\* each. Inside a run count_lr_no_improve goes back to 0 only in a
\* learning-rate decay, and count_early_stop never goes down: non-improving
\* epochs with improving epochs between them add up.
C20_CountersAccumulate ==
    [][pc # "idle" =>
        /\ pc = "track" =>
              IF FLt(vloss, best_vloss)
              THEN /\ count_lr_no_improve' = count_lr_no_improve
                   /\ count_early_stop' = count_early_stop
              ELSE /\ count_lr_no_improve' = count_lr_no_improve + 1
                   /\ count_early_stop' = count_early_stop + 1
        /\ pc # "track" => count_early_stop' = count_early_stop
        /\ count_lr_no_improve' < count_lr_no_improve
              => /\ count_lr_no_improve' = 0
                 /\ count_lr_no_improve >= train_args.reducelr_patience
                 /\ FLt(train_args.min_lr, lr)
                 /\ lr' = FMul(lr, train_args.reducelr_increment)]_vars

\* a non-improving epoch between two improving ones: after the third epoch
\* was judged both counters still hold the 1 of the second
C20_Witness ==
    /\ pc = "reduce"
    /\ Len(hist) = 3
    /\ hist[1].improved
    /\ ~hist[2].improved
    /\ hist[3].improved
    /\ count_lr_no_improve = 1
    /\ count_early_stop = 1

(* ------------------------------- C21 ----------------------------------- *)
\* line 374 found (inside a fit) or would find (outside) 'val_loss' in the ledger
Resumed == IF pc = "idle" THEN "val_loss" \in DOMAIN losses ELSE before.resumed

\* C21: a fit on a trainer whose ledger holds val_loss entries starts with
\* the lowest of those entries as its best validation loss and with both
\* counters at 0; in that run best_model is replaced only by an epoch whose
\* validation loss is below every validation loss recorded before it; and
\* when no epoch of the run does that, best_model is still what it was before
\* the call and the file written at the end holds what best_model held
\* before the call.
C21_ResumedFitKeepsEarlierBest ==
    [][/\ (pc = "idle" /\ pc' = "train" /\ ValLen > 0)
          => /\ \E i \in 1 .. ValLen : best_vloss' = losses["val_loss"][i]
             /\ \A i \in 1 .. ValLen : ~FLt(losses["val_loss"][i], best_vloss')
             /\ count_lr_no_improve' = 0
             /\ count_early_stop' = 0
       /\ (pc # "idle" /\ best_model' # best_model)
          => \A i \in 1 .. (ValLen - 1) : FLt(losses["val_loss"][ValLen], losses["val_loss"][i])
       /\ (pc = "save" /\ pc' = "idle" /\ Resumed /\ NumImproved = 0)
          => /\ best_model' = before.best_model
             /\ files'[Len(files')].content = before.content]_vars

====
